---- MODULE Spec2Model ----
(***************************************************************************)
(* Plugin context sharing of the kn client                                 *)
(* (pkg/kn/plugin/context_sharing.go): the process-wide                    *)
(* ContextDataManager, its manifest discovery over the plugin registry     *)
(* and the producer / consumer indexes it derives.                         *)
(*                                                                         *)
(* Plugin names are the numbers 1..MaxPlugins.  Paths are numbers too:     *)
(* EmptyPath is the empty string (an inlined plugin), ExternalPath(n) is   *)
(* the binary of plugin n, ForeignPath is a path a plugin may write into   *)
(* its manifest output.                                                    *)
(***************************************************************************)
EXTENDS Integers, Sequences, FiniteSets, TLC

MaxPlugins == 3

\* bounds of the specification that follows the cache file over several processes
MaxInstalled == 1

MaxProcesses == 2

\* bound of the specification that reads contexts: the distinct values a key may hold
MaxValues == 2

\* bound of the specification of the function Client: the image digests a pusher
\* may return
MaxDigests == 2

\* bound of the specification of the function Client: the Increment calls that the
\* ticker goroutines of Build calls that have returned may still owe
MaxLate == 2

\* bound of the specification of concurrent NewContextManager calls: the goroutines
MaxThreads == 2

\* bound of the specification that follows FetchManifests statement by statement:
\* the plugins the registry can list
MaxListed == 2

PluginNames == 1..MaxPlugins

Keys == {"service", "namespace"}

EmptyPath == 0

ExternalPath(n) == n

ForeignPath == MaxPlugins + 1

Range(s) == {s[i] : i \in DOMAIN s}

(***************************************************************************)
(* Go maps: a function with a finite domain; reading a missing key gives   *)
(* the zero value of the element type.                                     *)
(***************************************************************************)
EmptyMap == [x \in {} |-> {}]

MapGet(m, k, zero) == IF k \in DOMAIN m THEN m[k] ELSE zero

MapPut(m, k, v) == [x \in (DOMAIN m) \cup {k} |-> IF x = k THEN v ELSE m[x]]

(***************************************************************************)
(* type Manifest struct, and *Manifest                                     *)
(***************************************************************************)
Manifest(path, has, produces, consumes) ==
    [Path |-> path, HasManifest |-> has,
     ProducesContextDataKeys |-> produces,
     ConsumesContextDataKeys |-> consumes]

ZeroManifest == Manifest(EmptyPath, FALSE, <<>>, <<>>)

NilManifest == [isNil |-> TRUE, v |-> ZeroManifest]

Ptr(m) == [isNil |-> FALSE, v |-> m]

(***************************************************************************)
(* The standard output of `<plugin> manifest`: a JSON text.  A text that   *)
(* is not a JSON value has valid = FALSE.  Each field of the object is     *)
(* absent, present with a value of the field's type ("ok"), or present     *)
(* with a value of another JSON type ("bad").                              *)
(***************************************************************************)
Absent(zero) == [tag |-> "absent", val |-> zero]

Ok(v) == [tag |-> "ok", val |-> v]

Bad(zero) == [tag |-> "bad", val |-> zero]

Doc(valid, path, has, produces, consumes) ==
    [valid |-> valid, path |-> path, hasManifest |-> has,
     producesKeys |-> produces, consumesKeys |-> consumes]

\* not JSON at all
DocSyntaxError == Doc(FALSE, Absent(0), Absent(FALSE), Absent(<<>>), Absent(<<>>))
\* {"path":"/other","hasManifest":false,"producesKeys":["service"],
\*  "consumesKeys":["namespace","namespace"]}
DocDeclaresFalse ==
    Doc(TRUE, Ok(ForeignPath), Ok(FALSE), Ok(<<"service">>), Ok(<<"namespace", "namespace">>))
\* {"hasManifest":true,"consumesKeys":["service","namespace"]}
DocServiceLog == Doc(TRUE, Absent(0), Ok(TRUE), Absent(<<>>), Ok(<<"service", "namespace">>))
\* {"producesKeys":["service"],"hasManifest":"yes"}
DocBadHasManifest == Doc(TRUE, Absent(0), Bad(FALSE), Ok(<<"service">>), Absent(<<>>))
\* {"hasManifest":true,"producesKeys":5,"consumesKeys":["service","namespace"]}
DocBadProduces == Doc(TRUE, Absent(0), Ok(TRUE), Bad(<<>>), Ok(<<"service", "namespace">>))

SampleDocs == {DocSyntaxError, DocDeclaresFalse, DocServiceLog,
               DocBadHasManifest, DocBadProduces}

(***************************************************************************)
(* cmd.Run(): the process does not start, exits non-zero, or exits zero    *)
(* having written stdout.                                                  *)
(***************************************************************************)
Exec(run, stdout) == [run |-> run, stdout |-> stdout]

ExecOutcomes == {Exec("nostart", DocSyntaxError), Exec("exit1", DocServiceLog)}
                \cup {Exec("exit0", d) : d \in SampleDocs}

RunFailed(e) == e.run # "exit0"

(***************************************************************************)
(* json.Decoder.Decode into *Manifest: an invalid text sets nothing; in a  *)
(* valid object every well-typed field is stored, a field of the wrong     *)
(* type is skipped and makes Decode return an error.                       *)
(***************************************************************************)
DecodeField(old, f) == IF f.tag = "ok" THEN f.val ELSE old

Decode(manifest, doc) ==
    IF ~doc.valid
    THEN [m |-> manifest, err |-> TRUE]
    ELSE [m |-> Manifest(DecodeField(manifest.Path, doc.path),
                         DecodeField(manifest.HasManifest, doc.hasManifest),
                         DecodeField(manifest.ProducesContextDataKeys, doc.producesKeys),
                         DecodeField(manifest.ConsumesContextDataKeys, doc.consumesKeys)),
          err |-> \/ doc.path.tag = "bad"
                  \/ doc.hasManifest.tag = "bad"
                  \/ doc.producesKeys.tag = "bad"
                  \/ doc.consumesKeys.tag = "bad"]

\* what an execution came to: cmd.Run failed, Decode failed, or neither
ExecClass(e) ==
    IF RunFailed(e) THEN "runfail"
    ELSE IF Decode(ZeroManifest, e.stdout).err THEN "undecodable" ELSE "decoded"

(***************************************************************************)
(* A plugin of the registry: Name(), Path(), and for an inlined plugin     *)
(* whether it implements PluginWithManifest and what GetManifest returns.  *)
(***************************************************************************)
Plugin(name, path, hasCap, getManifest) ==
    [name |-> name, path |-> path, hasCap |-> hasCap, getManifest |-> getManifest]

InlineManifests ==
    {Manifest(EmptyPath, TRUE, <<"namespace">>, <<"service">>),
     Manifest(EmptyPath, FALSE, <<"service">>, <<>>)}

PluginsNamed(n) ==
    {Plugin(n, ExternalPath(n), FALSE, NilManifest),
     Plugin(n, EmptyPath, FALSE, NilManifest),
     Plugin(n, EmptyPath, TRUE, NilManifest)}
    \cup {Plugin(n, EmptyPath, TRUE, Ptr(m)) : m \in InlineManifests}

NotInstalled == Plugin(0, EmptyPath, FALSE, NilManifest)

VARIABLES
    ctxManager,   \* var ctxManager *ContextDataManager: 0 is nil, else an index of heap
    heap,         \* the ContextDataManager objects allocated so far
    registry,     \* the plugin Manager: plugin name -> installed plugin or NotInstalled
    discovered,   \* history: plugin names in the order their manifests were stored
    lastCall,     \* history: the FetchManifests call that has just returned
    cacheFile,    \* context.json beside the kn configuration file
    pid,          \* the running kn process: 1 is the first invocation, 2 the next, ...
    hung,         \* the plugin whose process cmd.Run is waiting for without end, else 0
    lastOp,       \* history: the NewContextManager, WriteCache or GetContext call
                  \* that has just returned
    loop,         \* the FetchManifests call in progress: its position in the for loop
    threads,      \* the goroutines calling NewContextManager: position and result
    client        \* a function Client: the Function on disk, the method called last, the ticker

procVars == <<cacheFile, pid, hung, lastOp>>

auxVars == <<loop, threads, client>>

vars == <<ctxManager, heap, registry, discovered, lastCall, cacheFile, pid, hung, lastOp,
          loop, threads, client>>

(***************************************************************************)
(* fetchExternalManifest                                                   *)
(***************************************************************************)
\* variant: a failed run gives no manifest at all
fetchExternalManifest_NilOnRunError(p, exec) ==
    LET manifest == Manifest(p.path, FALSE, <<>>, <<>>)
        d == Decode(manifest, exec.stdout)
    IN  IF RunFailed(exec) THEN NilManifest
        ELSE IF d.err THEN Ptr(d.m)
        ELSE Ptr([d.m EXCEPT !.HasManifest = TRUE])

fetchExternalManifest(p, exec) ==
    LET manifest == Manifest(p.path, FALSE, <<>>, <<>>)
        d == Decode(manifest, exec.stdout)
    IN  IF RunFailed(exec) THEN Ptr(manifest)
        ELSE IF d.err THEN Ptr(d.m)
        ELSE Ptr([d.m EXCEPT !.HasManifest = TRUE])

(***************************************************************************)
(* for _, key := range keys { index[key] = append(index[key], name) }      *)
(***************************************************************************)
\* variant: index[key] = []string{name}
RECURSIVE BuildMapping_Overwrite(_, _, _)
BuildMapping_Overwrite(index, keys, name) ==
    IF keys = <<>> THEN index
    ELSE BuildMapping_Overwrite(MapPut(index, Head(keys), <<name>>), Tail(keys), name)

RECURSIVE BuildMapping(_, _, _)
BuildMapping(index, keys, name) ==
    IF keys = <<>> THEN index
    ELSE BuildMapping(MapPut(index, Head(keys), Append(MapGet(index, Head(keys), <<>>), name)),
                      Tail(keys), name)

\* variant: the producers loop ranges over the consumed keys
AddManifest_ProducersFromConsumes(c, name, manifest) ==
    [c EXCEPT !.Manifests = MapPut(@, name, manifest),
              !.Producers = BuildMapping(@, manifest.ConsumesContextDataKeys, name),
              !.Consumers = BuildMapping(@, manifest.ConsumesContextDataKeys, name)]

\* FetchManifests, lines 140-149: store the manifest and extend both indexes
AddManifest(c, name, manifest) ==
    [c EXCEPT !.Manifests = MapPut(@, name, manifest),
              !.Producers = BuildMapping(@, manifest.ProducesContextDataKeys, name),
              !.Consumers = BuildMapping(@, manifest.ConsumesContextDataKeys, name)]

\* variant: the type assertion is tried before the path is looked at
FetchOne_CapabilityFirst(plugin, exec) ==
    IF plugin.hasCap THEN plugin.getManifest
    ELSE IF plugin.path # EmptyPath THEN fetchExternalManifest(plugin, exec)
    ELSE NilManifest

\* FetchManifests, lines 125-136: the manifest pointer obtained for one plugin
FetchOne(plugin, exec) ==
    IF plugin.path # EmptyPath
    THEN fetchExternalManifest(plugin, exec)
    ELSE IF plugin.hasCap THEN plugin.getManifest ELSE NilManifest

(***************************************************************************)
(* The loop of FetchManifests from position i on.  st.c is the manager,    *)
(* st.fetched the names a fetch was attempted for (in order), st.stop the  *)
(* name whose nil manifest made the call return (0 if none).               *)
(***************************************************************************)
\* variant: no "add new plugins only" test
RECURSIVE FetchLoop_NoExistsCheck(_, _, _, _)
FetchLoop_NoExistsCheck(st, plugins, i, execs) ==
    IF i > Len(plugins) THEN st
    ELSE LET plugin == plugins[i]
             manifest == FetchOne(plugin, execs[plugin.name]) IN
         IF manifest.isNil
         THEN [st EXCEPT !.fetched = Append(@, plugin.name), !.stop = plugin.name]
         ELSE FetchLoop_NoExistsCheck([st EXCEPT !.c = AddManifest(@, plugin.name, manifest.v),
                                                 !.fetched = Append(@, plugin.name)],
                                      plugins, i + 1, execs)

\* variant: a plugin stored without a manifest is fetched again
RECURSIVE FetchLoop_RetryNoManifest(_, _, _, _)
FetchLoop_RetryNoManifest(st, plugins, i, execs) ==
    IF i > Len(plugins) THEN st
    ELSE LET plugin == plugins[i] IN
         IF /\ plugin.name \in DOMAIN st.c.Manifests
            /\ st.c.Manifests[plugin.name].HasManifest
         THEN FetchLoop_RetryNoManifest(st, plugins, i + 1, execs)
         ELSE LET manifest == FetchOne(plugin, execs[plugin.name]) IN
              IF manifest.isNil
              THEN [st EXCEPT !.fetched = Append(@, plugin.name), !.stop = plugin.name]
              ELSE FetchLoop_RetryNoManifest(
                       [st EXCEPT !.c = AddManifest(@, plugin.name, manifest.v),
                                  !.fetched = Append(@, plugin.name)],
                       plugins, i + 1, execs)

\* variant: a nil manifest skips the plugin instead of ending the call
RECURSIVE FetchLoop_ContinueOnNil(_, _, _, _)
FetchLoop_ContinueOnNil(st, plugins, i, execs) ==
    IF i > Len(plugins) THEN st
    ELSE LET plugin == plugins[i] IN
         IF plugin.name \in DOMAIN st.c.Manifests
         THEN FetchLoop_ContinueOnNil(st, plugins, i + 1, execs)
         ELSE LET manifest == FetchOne(plugin, execs[plugin.name]) IN
              IF manifest.isNil
              THEN FetchLoop_ContinueOnNil(
                       [st EXCEPT !.fetched = Append(@, plugin.name),
                                  !.stop = IF @ = 0 THEN plugin.name ELSE @],
                       plugins, i + 1, execs)
              ELSE FetchLoop_ContinueOnNil(
                       [st EXCEPT !.c = AddManifest(@, plugin.name, manifest.v),
                                  !.fetched = Append(@, plugin.name)],
                       plugins, i + 1, execs)

RECURSIVE FetchLoop(_, _, _, _)
FetchLoop(st, plugins, i, execs) ==
    IF i > Len(plugins) THEN st
    ELSE LET plugin == plugins[i] IN
         IF plugin.name \in DOMAIN st.c.Manifests
         THEN FetchLoop(st, plugins, i + 1, execs)
         ELSE LET manifest == FetchOne(plugin, execs[plugin.name]) IN
              IF manifest.isNil
              THEN [st EXCEPT !.fetched = Append(@, plugin.name), !.stop = plugin.name]
              ELSE FetchLoop([st EXCEPT !.c = AddManifest(@, plugin.name, manifest.v),
                                        !.fetched = Append(@, plugin.name)],
                             plugins, i + 1, execs)

\* variant: a nil manifest is reported to the caller as an error
FetchManifestsOp_ErrOnNil(c, listed, execs) ==
    IF listed.err
    THEN [c |-> c, fetched |-> <<>>, stop |-> 0, err |-> TRUE]
    ELSE LET st == FetchLoop([c |-> c, fetched |-> <<>>, stop |-> 0], listed.plugins, 1, execs)
         IN  [c |-> st.c, fetched |-> st.fetched, stop |-> st.stop, err |-> st.stop # 0]

\* variant: a registry without plugins is reported as an error
FetchManifestsOp_ErrOnNoPlugins(c, listed, execs) ==
    IF listed.err \/ listed.plugins = <<>>
    THEN [c |-> c, fetched |-> <<>>, stop |-> 0, err |-> TRUE]
    ELSE LET st == FetchLoop([c |-> c, fetched |-> <<>>, stop |-> 0], listed.plugins, 1, execs)
         IN  [c |-> st.c, fetched |-> st.fetched, stop |-> st.stop, err |-> FALSE]

\* (c *ContextDataManager) FetchManifests(pluginManager): listed = ListPlugins()
FetchManifestsOp(c, listed, execs) ==
    IF listed.err
    THEN [c |-> c, fetched |-> <<>>, stop |-> 0, err |-> TRUE]
    ELSE LET st == FetchLoop([c |-> c, fetched |-> <<>>, stop |-> 0], listed.plugins, 1, execs)
         IN  [c |-> st.c, fetched |-> st.fetched, stop |-> st.stop, err |-> FALSE]

(***************************************************************************)
(* Manager.ListPlugins: the installed plugins in name order, or an error.  *)
(***************************************************************************)
RECURSIVE InstalledFrom(_, _)
InstalledFrom(reg, n) ==
    IF n > MaxPlugins THEN <<>>
    ELSE IF reg[n] = NotInstalled THEN InstalledFrom(reg, n + 1)
    ELSE <<reg[n]>> \o InstalledFrom(reg, n + 1)

ListPlugins(reg, fails) ==
    IF fails THEN [plugins |-> <<>>, err |-> TRUE]
    ELSE [plugins |-> InstalledFrom(reg, 1), err |-> FALSE]

(***************************************************************************)
(* Accessors                                                               *)
(***************************************************************************)
\* variant: the manifest is reached through a pointer that is nil for an unknown name
GetConsumesKeys_NilDeref(c, pluginName) ==
    IF pluginName \in DOMAIN c.Manifests
    THEN c.Manifests[pluginName].ConsumesContextDataKeys
    ELSE <<"panic: nil pointer dereference">>

GetConsumesKeys(c, pluginName) ==
    MapGet(c.Manifests, pluginName, ZeroManifest).ConsumesContextDataKeys

\* variant: the produced keys are read from the consumed keys' field
GetProducesKeys_ReturnsConsumes(c, pluginName) ==
    MapGet(c.Manifests, pluginName, ZeroManifest).ConsumesContextDataKeys

GetProducesKeys(c, pluginName) ==
    MapGet(c.Manifests, pluginName, ZeroManifest).ProducesContextDataKeys

NewManager ==
    [ContextData |-> EmptyMap, Producers |-> EmptyMap,
     Consumers |-> EmptyMap, Manifests |-> EmptyMap]

NoCall ==
    [called |-> FALSE, listErr |-> FALSE, err |-> FALSE, plugins |-> <<>>,
     fetched |-> <<>>, stop |-> 0, ran |-> EmptyMap, repeat |-> FALSE]

(***************************************************************************)
(* The cache file.  Its content is the JSON text enc.Encode(c) produces:   *)
(* every exported field of the manager, a manifest's path and key lists    *)
(* left out when empty (omitempty).  A file is absent, complete, torn      *)
(* (truncated or written in part); mode holds the octal digits of its      *)
(* permission bits for user, group and others, and a file whose owner has  *)
(* no read permission is unreadable whatever it holds.                     *)
(***************************************************************************)
OmitEmpty(v, zero) == IF v = zero THEN Absent(zero) ELSE Ok(v)

EncodeManifest(m) ==
    Doc(TRUE, OmitEmpty(m.Path, EmptyPath), Ok(m.HasManifest),
        OmitEmpty(m.ProducesContextDataKeys, <<>>),
        OmitEmpty(m.ConsumesContextDataKeys, <<>>))

Encode(c) ==
    [contextData |-> c.ContextData,
     Producers |-> c.Producers,
     Consumers |-> c.Consumers,
     manifests |-> [n \in DOMAIN c.Manifests |-> EncodeManifest(c.Manifests[n])]]

\* decoder.Decode(ctxManager) of lines 76-80, which the source has commented out:
\* what a manager loaded from the text would hold
DecodeCache(text) ==
    [ContextData |-> text.contextData,
     Producers |-> text.Producers,
     Consumers |-> text.Consumers,
     Manifests |-> [n \in DOMAIN text.manifests |->
                      Decode(ZeroManifest, text.manifests[n]).m]]

CacheFileMode == <<6, 6, 4>>

Umasks == {<<0, 0, 0>>, <<0, 2, 2>>}

\* one octal digit of perm &^ umask
ClearBits(d, u) ==
    LET Bit(b) == IF (d \div b) % 2 = 1 /\ (u \div b) % 2 = 0 THEN b ELSE 0
    IN  Bit(1) + Bit(2) + Bit(4)

ApplyUmask(perm, umask) == [i \in 1..3 |-> ClearBits(perm[i], umask[i])]

File(state, text, mode) == [state |-> state, text |-> text, mode |-> mode]

NoFile == File("absent", Encode(NewManager), <<0, 0, 0>>)

\* the owner may read the file
Readable(file) == (file.mode[1] \div 4) % 2 = 1

\* what opening and decoding the file would meet
CacheCondition(file) ==
    IF file.state = "absent" THEN "absent"
    ELSE IF ~Readable(file) THEN "unreadable"
    ELSE file.state

WriteOutcomes == {"written", "notopened", "writefailed"}

\* os.WriteFile(name, data, perm): open with O_WRONLY|O_CREATE|O_TRUNC, write, close
WriteFile(file, data, perm, umask, outcome) ==
    LET mode == IF file.state = "absent" THEN ApplyUmask(perm, umask) ELSE file.mode
    IN  IF outcome = "notopened" THEN [file |-> file, err |-> TRUE]
        ELSE IF outcome = "writefailed"
        THEN [file |-> File("torn", Encode(NewManager), mode), err |-> TRUE]
        ELSE [file |-> File("complete", data, mode), err |-> FALSE]

\* variant: the error of os.WriteFile is dropped, as that of enc.Encode is
WriteCacheOp_DropsError(c, file, umask, outcome) ==
    [c |-> c, file |-> WriteFile(file, Encode(c), CacheFileMode, umask, outcome).file,
     err |-> FALSE]

\* (c *ContextDataManager) WriteCache()
WriteCacheOp(c, file, umask, outcome) ==
    LET w == WriteFile(file, Encode(c), CacheFileMode, umask, outcome)
    IN  [c |-> c, file |-> w.file, err |-> w.err]

\* variant: lines 72-80 as they stand in the comment: open and decode the cache,
\* return the error of either
NewContextManagerOp_OpensCache(ctx, hp, file) ==
    IF ctx # 0 THEN [ctxManager |-> ctx, heap |-> hp, ret |-> ctx, err |-> FALSE]
    ELSE IF CacheCondition(file) # "complete"
    THEN [ctxManager |-> 0, heap |-> hp, ret |-> 0, err |-> TRUE]
    ELSE [ctxManager |-> Len(hp) + 1, heap |-> Append(hp, DecodeCache(file.text)),
          ret |-> Len(hp) + 1, err |-> FALSE]

\* variant: no `if ctxManager == nil` test
NewContextManagerOp_AlwaysConstructs(ctx, hp, file) ==
    [ctxManager |-> Len(hp) + 1, heap |-> Append(hp, NewManager),
     ret |-> Len(hp) + 1, err |-> FALSE]

\* NewContextManager(): the new value of the global, the heap, and what is returned
NewContextManagerOp(ctx, hp, file) ==
    IF ctx = 0
    THEN [ctxManager |-> Len(hp) + 1, heap |-> Append(hp, NewManager),
          ret |-> Len(hp) + 1, err |-> FALSE]
    ELSE [ctxManager |-> ctx, heap |-> hp, ret |-> ctx, err |-> FALSE]

\* variant: a name without a stored context falls back to the default context
GetContext_FallsBackToDefault(c, key) ==
    IF key \in DOMAIN c.ContextData THEN c.ContextData[key]
    ELSE MapGet(c.ContextData, "default", EmptyMap)

\* (c *ContextDataManager) GetContext(key): the map lookup's zero value is an
\* empty (nil) ContextData
GetContext(c, key) == MapGet(c.ContextData, key, EmptyMap)

\* (c *ContextDataManager) GetDefault()
GetDefault(c) == GetContext(c, "default")

NoOp == [op |-> "none", err |-> FALSE, ret |-> 0, outcome |-> "none",
         key |-> "", data |-> EmptyMap]

NoExec == Exec("nostart", DocSyntaxError)

\* no FetchManifests call is in progress
IdleLoop == [phase |-> "idle", plugins |-> <<>>, i |-> 0, inflight |-> {},
             got |-> NilManifest, exec |-> NoExec, fetched |-> <<>>]

AuxInit ==
    /\ loop = IdleLoop
    /\ threads = <<>>
    /\ client = <<>>

Init ==
    /\ AuxInit
    /\ ctxManager = 0
    /\ heap = <<>>
    /\ registry = [n \in PluginNames |-> NotInstalled]
    /\ discovered = <<>>
    /\ lastCall = NoCall
    /\ cacheFile = NoFile
    /\ pid = 1
    /\ hung = 0
    /\ lastOp = NoOp

\* NewContextManager(): construct on first use, return the global
NewContextManager ==
    /\ heap' = NewContextManagerOp(ctxManager, heap, cacheFile).heap
    /\ ctxManager' = NewContextManagerOp(ctxManager, heap, cacheFile).ctxManager
    /\ UNCHANGED <<registry, discovered, lastCall>>

\* a plugin appears in the plugin directory or is registered as inlined
InstallPlugin ==
    \E n \in PluginNames :
        /\ registry[n] = NotInstalled
        /\ \E p \in PluginsNamed(n) : registry' = [registry EXCEPT ![n] = p]
        /\ lastCall' = NoCall
        /\ UNCHANGED <<ctxManager, heap, discovered>>

Names(plugins) == [i \in DOMAIN plugins |-> plugins[i].name]

Stored(r) == SelectSeq(r.fetched, LAMBDA n : n # r.stop)

\* ctxManager.FetchManifests(pluginManager)
FetchManifests ==
    /\ ctxManager # 0
    /\ \E fails \in BOOLEAN :
       \E execs \in [{n \in PluginNames : /\ ~fails
                                          /\ registry[n].path # EmptyPath
                                          /\ n \notin DOMAIN heap[ctxManager].Manifests}
                     -> ExecOutcomes] :
          LET listed == ListPlugins(registry, fails)
              allExecs == [n \in PluginNames |->
                              IF n \in DOMAIN execs THEN execs[n]
                              ELSE Exec("nostart", DocSyntaxError)]
              r == FetchManifestsOp(heap[ctxManager], listed, allExecs)
          IN  /\ heap' = [heap EXCEPT ![ctxManager] = r.c]
              /\ discovered' = discovered \o Stored(r)
              /\ lastCall' = [called |-> TRUE, listErr |-> listed.err, err |-> r.err,
                              plugins |-> Names(listed.plugins),
                              fetched |-> r.fetched, stop |-> r.stop,
                              ran |-> [n \in {m \in Range(r.fetched) : m \in DOMAIN execs}
                                         |-> ExecClass(execs[n])],
                              repeat |-> /\ lastCall.called /\ ~lastCall.err /\ ~r.err
                                         /\ lastCall.plugins = Names(listed.plugins)]
    /\ UNCHANGED <<ctxManager, registry>>

Next ==
    \/ NewContextManager /\ UNCHANGED procVars /\ UNCHANGED auxVars
    \/ InstallPlugin /\ UNCHANGED procVars /\ UNCHANGED auxVars
    \/ FetchManifests /\ UNCHANGED procVars /\ UNCHANGED auxVars

Spec == Init /\ [][Next]_vars

(***************************************************************************)
(* Several kn invocations, one after the other, over the same plugin       *)
(* registry and cache file.                                                *)
(***************************************************************************)
ProcNewContextManager ==
    /\ hung = 0
    /\ NewContextManager
    /\ lastOp' = [NoOp EXCEPT
                     !.op = "new",
                     !.err = NewContextManagerOp(ctxManager, heap, cacheFile).err,
                     !.ret = NewContextManagerOp(ctxManager, heap, cacheFile).ret,
                     !.outcome = IF ctxManager = 0 THEN CacheCondition(cacheFile)
                                 ELSE "none"]
    /\ UNCHANGED <<cacheFile, pid, hung>>

ProcInstallPlugin ==
    /\ InstallPlugin
    /\ \A n \in PluginNames : n > MaxInstalled => registry'[n] = NotInstalled
    /\ UNCHANGED procVars

ProcFetchManifests ==
    /\ hung = 0
    /\ FetchManifests
    /\ lastOp' = NoOp
    /\ UNCHANGED <<cacheFile, pid, hung>>

\* a process that never exits: cmd.Run does not return
NeverExits == Exec("running", DocSyntaxError)

\* FetchManifests reaches an external plugin whose `manifest` process never exits:
\* the plugins listed before it are handled, then the call waits in cmd.Run
FetchManifestsHangs ==
    /\ ctxManager # 0
    /\ hung = 0
    /\ LET plugins == ListPlugins(registry, FALSE).plugins IN
       \E i \in DOMAIN plugins :
       \E execs \in [{plugins[j].name : j \in 1..(i - 1)} -> ExecOutcomes] :
          LET allExecs == [n \in PluginNames |->
                              IF n \in DOMAIN execs THEN execs[n] ELSE NeverExits]
              r == FetchManifestsOp(heap[ctxManager],
                                    [plugins |-> SubSeq(plugins, 1, i - 1), err |-> FALSE],
                                    allExecs)
          IN  /\ plugins[i].path # EmptyPath
              /\ plugins[i].name \notin DOMAIN heap[ctxManager].Manifests
              /\ r.stop = 0
              /\ heap' = [heap EXCEPT ![ctxManager] = r.c]
              /\ discovered' = discovered \o Stored(r)
              /\ hung' = plugins[i].name
    /\ lastCall' = NoCall
    /\ lastOp' = NoOp
    /\ UNCHANGED <<ctxManager, registry, cacheFile, pid>>

\* ctxManager.WriteCache()
WriteCache ==
    /\ ctxManager # 0
    /\ hung = 0
    /\ \E umask \in Umasks, outcome \in WriteOutcomes :
          LET w == WriteCacheOp(heap[ctxManager], cacheFile, umask, outcome)
          IN  /\ heap' = [heap EXCEPT ![ctxManager] = w.c]
              /\ cacheFile' = w.file
              /\ lastOp' = [NoOp EXCEPT !.op = "write", !.err = w.err,
                                        !.outcome = outcome]
    /\ UNCHANGED <<ctxManager, registry, discovered, lastCall, pid, hung>>

\* the process ends (or is killed while it hangs) and kn is invoked again
Exit ==
    /\ pid < MaxProcesses
    /\ pid' = pid + 1
    /\ ctxManager' = 0
    /\ heap' = <<>>
    /\ discovered' = <<>>
    /\ lastCall' = NoCall
    /\ hung' = 0
    /\ lastOp' = NoOp
    /\ UNCHANGED <<registry, cacheFile>>

\* between two invocations the cache file is removed or loses its read permission
DamageCache ==
    /\ ctxManager = 0
    /\ CacheCondition(cacheFile) = "complete"
    /\ \/ cacheFile' = NoFile
       \/ cacheFile' = [cacheFile EXCEPT !.mode = ApplyUmask(@, <<4, 4, 4>>)]
    /\ UNCHANGED <<ctxManager, heap, registry, discovered, lastCall, pid, hung, lastOp>>

NextProcesses ==
    \/ ProcNewContextManager /\ UNCHANGED auxVars
    \/ ProcInstallPlugin /\ UNCHANGED auxVars
    \/ ProcFetchManifests /\ UNCHANGED auxVars
    \/ FetchManifestsHangs /\ UNCHANGED auxVars
    \/ WriteCache /\ UNCHANGED auxVars
    \/ Exit /\ UNCHANGED auxVars
    \/ DamageCache /\ UNCHANGED auxVars

SpecProcesses == Init /\ [][NextProcesses]_vars

(***************************************************************************)
(* FetchManifests statement by statement: the for loop of lines 122-151    *)
(* with the fetch of a manifest and the store of it as separate steps.     *)
(* loop.inflight holds the plugins whose manifest fetch has started and    *)
(* not ended.  The registry here may also hold an external plugin whose    *)
(* type implements PluginWithManifest.                                     *)
(***************************************************************************)
StepPlugins(n) ==
    PluginsNamed(n) \cup
    {Plugin(n, ExternalPath(n), TRUE, Ptr(Manifest(EmptyPath, TRUE, <<"namespace">>, <<>>)))}

StepInstallPlugin ==
    /\ loop.phase = "idle"
    /\ \E n \in 1..MaxListed :
          /\ registry[n] = NotInstalled
          /\ \E p \in StepPlugins(n) : registry' = [registry EXCEPT ![n] = p]
    /\ UNCHANGED <<ctxManager, heap, discovered, lastCall, loop>>

\* lines 118-121: plugins, err := pluginManager.ListPlugins()
StepListPlugins ==
    /\ ctxManager # 0
    /\ loop.phase = "idle"
    /\ \E fails \in BOOLEAN :
          LET listed == ListPlugins(registry, fails)
          IN  loop' = IF listed.err THEN IdleLoop
                      ELSE [IdleLoop EXCEPT !.phase = "loop", !.plugins = listed.plugins,
                                            !.i = 1]
    /\ UNCHANGED <<ctxManager, heap, registry, discovered, lastCall>>

\* line 124: the plugin has an entry already
StepSkip ==
    /\ loop.phase = "loop"
    /\ loop.i <= Len(loop.plugins)
    /\ loop.plugins[loop.i].name \in DOMAIN heap[ctxManager].Manifests
    /\ loop' = [loop EXCEPT !.i = @ + 1]
    /\ UNCHANGED <<ctxManager, heap, registry, discovered, lastCall>>

\* variant: the fetch of the next plugin starts in a goroutine of its own, while
\* the one before is still fetched or stored
StepFetchStart_Overlapping ==
    /\ loop.phase \in {"loop", "fetching", "fetched"}
    /\ LET j == IF loop.phase = "loop" THEN loop.i ELSE loop.i + 1 IN
       /\ j <= Len(loop.plugins)
       /\ loop.plugins[j].name \notin DOMAIN heap[ctxManager].Manifests
       /\ loop' = [loop EXCEPT !.phase = "fetching", !.i = j,
                               !.inflight = @ \cup {loop.plugins[j].name}]
    /\ UNCHANGED <<ctxManager, heap, registry, discovered, lastCall>>

\* lines 124-136: the fetch of the manifest of plugins[i] starts
StepFetchStart ==
    /\ loop.phase = "loop"
    /\ loop.i <= Len(loop.plugins)
    /\ loop.plugins[loop.i].name \notin DOMAIN heap[ctxManager].Manifests
    /\ loop' = [loop EXCEPT !.phase = "fetching",
                            !.inflight = @ \cup {loop.plugins[loop.i].name}]
    /\ UNCHANGED <<ctxManager, heap, registry, discovered, lastCall>>

\* lines 126-136: fetchExternalManifest or GetManifest returns
StepFetchEnd ==
    /\ loop.phase = "fetching"
    /\ LET plugin == loop.plugins[loop.i] IN
       \E exec \in IF plugin.path # EmptyPath THEN ExecOutcomes ELSE {NoExec} :
          loop' = [loop EXCEPT !.phase = "fetched",
                               !.inflight = @ \ {plugin.name},
                               !.got = FetchOne(plugin, exec),
                               !.exec = exec,
                               !.fetched = Append(@, plugin.name)]
    /\ UNCHANGED <<ctxManager, heap, registry, discovered, lastCall>>

\* lines 137-149: return on a nil manifest, else store it and extend the indexes
StepStore ==
    /\ loop.phase = "fetched"
    /\ LET plugin == loop.plugins[loop.i] IN
       IF loop.got.isNil
       THEN /\ loop' = IdleLoop
            /\ UNCHANGED <<heap, discovered>>
       ELSE /\ heap' = [heap EXCEPT ![ctxManager] = AddManifest(@, plugin.name, loop.got.v)]
            /\ discovered' = Append(discovered, plugin.name)
            /\ loop' = [loop EXCEPT !.phase = "loop", !.i = @ + 1,
                                    !.got = NilManifest, !.exec = NoExec]
    /\ UNCHANGED <<ctxManager, registry, lastCall>>

\* lines 152-159: the loop is over, the manifests are printed, return nil
StepReturn ==
    /\ loop.phase = "loop"
    /\ loop.i > Len(loop.plugins)
    /\ loop' = IdleLoop
    /\ UNCHANGED <<ctxManager, heap, registry, discovered, lastCall>>

NextSteps ==
    \/ NewContextManager /\ UNCHANGED <<procVars, loop, threads, client>>
    \/ StepInstallPlugin /\ UNCHANGED <<procVars, threads, client>>
    \/ StepListPlugins /\ UNCHANGED <<procVars, threads, client>>
    \/ StepSkip /\ UNCHANGED <<procVars, threads, client>>
    \/ StepFetchStart /\ UNCHANGED <<procVars, threads, client>>
    \/ StepFetchEnd /\ UNCHANGED <<procVars, threads, client>>
    \/ StepStore /\ UNCHANGED <<procVars, threads, client>>
    \/ StepReturn /\ UNCHANGED <<procVars, threads, client>>

SpecSteps == Init /\ [][NextSteps]_vars

(***************************************************************************)
(* Goroutines of one process that call NewContextManager and then use the  *)
(* manager they were given.  NewContextManager takes no lock, so its       *)
(* statements interleave: the nil test (line 70), the construction and     *)
(* assignment of the package variable (lines 86-91), and the read of the   *)
(* package variable by `return ctxManager, nil` (line 93).                 *)
(***************************************************************************)
Thread(pc, ret) ==
    [pc |-> pc, ret |-> ret, plugins |-> <<>>, i |-> 0, got |-> NilManifest,
     k |-> 0, read |-> <<>>]

InitThreads ==
    /\ ctxManager = 0
    /\ heap = <<>>
    /\ registry = [n \in PluginNames |-> NotInstalled]
    /\ discovered = <<>>
    /\ lastCall = NoCall
    /\ cacheFile = NoFile
    /\ pid = 1
    /\ hung = 0
    /\ lastOp = NoOp
    /\ loop = IdleLoop
    /\ client = <<>>
    /\ threads = [t \in 1..MaxThreads |-> Thread("test", 0)]

\* line 70: if ctxManager == nil
ThreadTest ==
    /\ \E t \in DOMAIN threads :
          /\ threads[t].pc = "test"
          /\ threads' = [threads EXCEPT ![t].pc = IF ctxManager = 0 THEN "construct"
                                                  ELSE "return"]
    /\ UNCHANGED <<ctxManager, heap, registry, discovered, lastCall>>

\* lines 86-91: ctxManager = &ContextDataManager{...}
ThreadConstruct ==
    /\ \E t \in DOMAIN threads :
          /\ threads[t].pc = "construct"
          /\ threads' = [threads EXCEPT ![t].pc = "return"]
    /\ heap' = Append(heap, NewManager)
    /\ ctxManager' = Len(heap) + 1
    /\ UNCHANGED <<registry, discovered, lastCall>>

\* line 93: return ctxManager, nil
ThreadReturn ==
    /\ \E t \in DOMAIN threads :
          /\ threads[t].pc = "return"
          /\ threads' = [threads EXCEPT ![t] = Thread("returned", ctxManager)]
    /\ UNCHANGED <<ctxManager, heap, registry, discovered, lastCall>>

(***************************************************************************)
(* A goroutine calls FetchManifests on the manager it was given.  The call *)
(* takes no lock either, so its statements interleave with those of the    *)
(* other goroutines: ListPlugins (lines 118-121), the exists test (line    *)
(* 124), the fetch (lines 126-136), the nil test with the store of the     *)
(* manifest (lines 137-141), and for each key of the two index loops the   *)
(* read of the list and the assignment of the appended list (lines 144 and *)
(* 148), and the encoding of c.Manifests once the loop has ended (lines    *)
(* 152-159).                                                               *)
(***************************************************************************)
ThreadListPlugins ==
    /\ \E t \in DOMAIN threads :
          /\ threads[t].pc = "returned"
          /\ \E fails \in BOOLEAN :
                LET listed == ListPlugins(registry, fails)
                IN  threads' = [threads EXCEPT
                                   ![t].pc = IF listed.err THEN "used" ELSE "loop",
                                   ![t].plugins = listed.plugins,
                                   ![t].i = IF listed.err THEN 0 ELSE 1]
    /\ UNCHANGED <<ctxManager, heap, registry, discovered, lastCall>>

\* lines 122-124: the loop head and the exists test
ThreadNextPlugin ==
    /\ \E t \in DOMAIN threads :
          LET th == threads[t] IN
          /\ th.pc = "loop"
          /\ threads' =
                IF th.i > Len(th.plugins)
                THEN [threads EXCEPT ![t] = Thread("encode", th.ret)]
                ELSE IF th.plugins[th.i].name \in DOMAIN heap[th.ret].Manifests
                THEN [threads EXCEPT ![t].i = @ + 1]
                ELSE [threads EXCEPT ![t].pc = "fetching"]
    /\ UNCHANGED <<ctxManager, heap, registry, discovered, lastCall>>

\* lines 152-159: enc.Encode(c.Manifests) ranges over the map, the text is printed
\* and the call returns
ThreadEncode ==
    /\ \E t \in DOMAIN threads :
          /\ threads[t].pc = "encode"
          /\ threads' = [threads EXCEPT ![t] = Thread("used", threads[t].ret)]
    /\ UNCHANGED <<ctxManager, heap, registry, discovered, lastCall>>

\* lines 126-136: fetchExternalManifest or GetManifest returns
ThreadFetched ==
    /\ \E t \in DOMAIN threads :
          LET th == threads[t]
              plugin == th.plugins[th.i] IN
          /\ th.pc = "fetching"
          /\ \E exec \in IF plugin.path # EmptyPath THEN ExecOutcomes ELSE {NoExec} :
                threads' = [threads EXCEPT ![t].pc = "store",
                                           ![t].got = FetchOne(plugin, exec)]
    /\ UNCHANGED <<ctxManager, heap, registry, discovered, lastCall>>

\* lines 137-141: return on a nil manifest, else c.Manifests[plugin.Name()] = *manifest
ThreadStore ==
    /\ \E t \in DOMAIN threads :
          LET th == threads[t]
              plugin == th.plugins[th.i] IN
          /\ th.pc = "store"
          /\ IF th.got.isNil
             THEN /\ threads' = [threads EXCEPT ![t] = Thread("used", th.ret)]
                  /\ UNCHANGED <<heap, discovered>>
             ELSE /\ heap' = [heap EXCEPT ![th.ret].Manifests =
                                  MapPut(@, plugin.name, th.got.v)]
                  /\ discovered' = Append(discovered, plugin.name)
                  /\ threads' = [threads EXCEPT ![t].pc = "produces", ![t].k = 1]
    /\ UNCHANGED <<ctxManager, registry, lastCall>>

\* the keys the loop a goroutine is in ranges over
ThreadKeys(th) ==
    IF th.pc \in {"produces", "produces.write"} THEN th.got.v.ProducesContextDataKeys
    ELSE IF th.pc \in {"consumes", "consumes.write"} THEN th.got.v.ConsumesContextDataKeys
    ELSE <<>>

\* lines 143-144 and 147-148: the loop head, and the read of c.Producers[key] or
\* c.Consumers[key] that append is given
ThreadReadIndex ==
    /\ \E t \in DOMAIN threads :
          LET th == threads[t]
              keys == ThreadKeys(th) IN
          /\ th.pc \in {"produces", "consumes"}
          /\ threads' =
                IF th.k > Len(keys)
                THEN IF th.pc = "produces"
                     THEN [threads EXCEPT ![t].pc = "consumes", ![t].k = 1]
                     ELSE [threads EXCEPT ![t].pc = "loop", ![t].i = @ + 1,
                                          ![t].got = NilManifest, ![t].k = 0]
                ELSE [threads EXCEPT
                         ![t].pc = IF th.pc = "produces" THEN "produces.write"
                                   ELSE "consumes.write",
                         ![t].read = MapGet(IF th.pc = "produces"
                                            THEN heap[th.ret].Producers
                                            ELSE heap[th.ret].Consumers,
                                            keys[th.k], <<>>)]
    /\ UNCHANGED <<ctxManager, heap, registry, discovered, lastCall>>

\* lines 144 and 148: the result of append is assigned to c.Producers[key] or
\* c.Consumers[key]
ThreadWriteIndex ==
    /\ \E t \in DOMAIN threads :
          LET th == threads[t]
              keys == ThreadKeys(th)
              name == th.plugins[th.i].name IN
          /\ th.pc \in {"produces.write", "consumes.write"}
          /\ heap' = IF th.pc = "produces.write"
                     THEN [heap EXCEPT ![th.ret].Producers =
                               MapPut(@, keys[th.k], Append(th.read, name))]
                     ELSE [heap EXCEPT ![th.ret].Consumers =
                               MapPut(@, keys[th.k], Append(th.read, name))]
          /\ threads' = [threads EXCEPT
                            ![t].pc = IF th.pc = "produces.write" THEN "produces"
                                      ELSE "consumes",
                            ![t].k = @ + 1, ![t].read = <<>>]
    /\ UNCHANGED <<ctxManager, registry, discovered, lastCall>>

\* the map of the manager a goroutine is about to write
ThreadWrites(th) ==
    IF th.pc = "store" /\ ~th.got.isNil THEN "Manifests"
    ELSE IF th.pc = "produces.write" THEN "Producers"
    ELSE IF th.pc = "consumes.write" THEN "Consumers"
    ELSE "none"

\* the map of the manager a goroutine is about to read or write
ThreadAccesses(th) ==
    IF th.pc = "loop" /\ th.i <= Len(th.plugins) THEN "Manifests"
    ELSE IF th.pc = "encode" THEN "Manifests"
    ELSE IF th.pc = "produces" /\ th.k <= Len(ThreadKeys(th)) THEN "Producers"
    ELSE IF th.pc = "consumes" /\ th.k <= Len(ThreadKeys(th)) THEN "Consumers"
    ELSE ThreadWrites(th)

\* a goroutine writes a map of a manager while another goroutine reads or writes
\* the same map: the runtime may stop the process with
\* "fatal error: concurrent map writes" (or "concurrent map read and map write")
ThreadFatal ==
    /\ \E t, u \in DOMAIN threads :
          /\ t # u
          /\ ThreadWrites(threads[t]) # "none"
          /\ ThreadAccesses(threads[u]) = ThreadWrites(threads[t])
          /\ threads[u].ret = threads[t].ret
    /\ threads' = [t \in DOMAIN threads |-> Thread("fatal", 0)]
    /\ UNCHANGED <<ctxManager, heap, registry, discovered, lastCall>>

NextThreads ==
    \/ ThreadTest /\ UNCHANGED <<procVars, loop, client>>
    \/ ThreadConstruct /\ UNCHANGED <<procVars, loop, client>>
    \/ ThreadReturn /\ UNCHANGED <<procVars, loop, client>>
    \/ ThreadListPlugins /\ UNCHANGED <<procVars, loop, client>>
    \/ ThreadNextPlugin /\ UNCHANGED <<procVars, loop, client>>
    \/ ThreadEncode /\ UNCHANGED <<procVars, loop, client>>
    \/ ThreadFetched /\ UNCHANGED <<procVars, loop, client>>
    \/ ThreadStore /\ UNCHANGED <<procVars, loop, client>>
    \/ ThreadReadIndex /\ UNCHANGED <<procVars, loop, client>>
    \/ ThreadWriteIndex /\ UNCHANGED <<procVars, loop, client>>
    \/ ThreadFatal /\ UNCHANGED <<procVars, loop, client>>
    \/ ProcInstallPlugin /\ UNCHANGED auxVars

SpecThreads == InitThreads /\ [][NextThreads]_vars

(***************************************************************************)
(* The function Client (package function).  A Function is what func.yaml   *)
(* holds under the function's root: whether it was created, its image tag  *)
(* (0 is the empty string) and the digest of the pushed image (0 is the    *)
(* empty string, which the default pusher returns).                        *)
(*                                                                         *)
(* A method is followed call by call.  The calling goroutine goes from one *)
(* call on the progress listener or on a strategy to the next, and a call  *)
(* of a strategy and its return are two steps.  The ticker goroutine that  *)
(* Build starts runs beside it: the runtime puts a tick in the channel     *)
(* (which holds one), the goroutine takes it and, in a later step, calls   *)
(* Increment.  ticker.Stop() neither closes the channel nor waits for the  *)
(* goroutine, so the Increment calls of a tick taken or left in the        *)
(* channel arrive after Build has returned.  call is the method called     *)
(* last: its place (pc), its local Function f, the error it returned       *)
(* ("nil" for none), the calls made on the strategies and the progress     *)
(* listener since it started, in order, the digest the pusher returned,    *)
(* the steps of New that returned, and the number of Stopping calls the    *)
(* progress listener gets if the context is cancelled: one from each       *)
(* goroutine started to wait for ctx.Done().  Those goroutines are not     *)
(* waited for, so a Stopping call arrives wherever the scheduler puts it,  *)
(* after the method has returned included, and has no place in the order   *)
(* of the other calls.                                                     *)
(***************************************************************************)
Function(initialized, image, digest) ==
    [initialized |-> initialized, image |-> image, digest |-> digest]

NoFunction == Function(FALSE, 0, 0)

\* f.Built(): the Function has an image
Built(f) == f.image # 0

\* DerivedImage(path, registry): the image of the configuration if there is one,
\* else one derived from the registry and the function's name
DerivedImage(f) == IF f.image # 0 THEN f.image ELSE 1

Digests == 0..MaxDigests

\* len(m): the messages of the ticker goroutine of Build
TickerMessages == 4

Statuses == {"Failed", "Deployed", "Updated"}

CreateOutcomes == {"ok", "create"}

PushOutcomes == {"ok", "push", "write"}

Method(op, pc, cancelled) ==
    [op |-> op, pc |-> pc, f |-> NoFunction, err |-> "nil", log |-> <<>>, pushed |-> 0,
     steps |-> <<>>, stopping |-> 0, cancelled |-> cancelled]

NoMethod == Method("none", "returned", FALSE)

\* time.NewTicker and the goroutine of lines 540-549: whether Build has not yet
\* stopped the ticker, the messages left in m, the ticks in the channel, and whether
\* the goroutine has taken a tick and not yet called Increment
Ticker(on, m, pending, inhand) ==
    [on |-> on, m |-> m, pending |-> pending, inhand |-> inhand]

NoTicker == Ticker(FALSE, 0, 0, FALSE)

\* the Increment calls a ticker goroutine still makes when no further tick comes
Owed(t) ==
    LET taken == (IF t.inhand THEN 1 ELSE 0) + t.pending
    IN  IF taken < t.m THEN taken ELSE t.m

\* a call on the progress listener or on a strategy
Log(c, e) == [c EXCEPT !.call.log = Append(@, e)]

At(c, pc) == [c EXCEPT !.call.pc = pc]

\* go func() { <-ctx.Done(); c.progressListener.Stopping() }()
Stopping(c) ==
    [c EXCEPT !.call.stopping = IF c.call.cancelled THEN @ + 1 ELSE @]

\* defer ticker.Stop()
StopTicker(c) ==
    [c EXCEPT !.ticker = NoTicker, !.late = @ + Owed(c.ticker)]

Step(name, err) == [step |-> name, err |-> err]

\* variant: the error of Build is not looked at
NewNext_IgnoresBuildError(step, err) ==
    IF err # "nil" /\ step # "Build" THEN "returned"
    ELSE IF step = "Create" THEN "new.load"
    ELSE IF step = "Build" THEN "new.deploy"
    ELSE IF step = "Deploy" THEN "new.route"
    ELSE "new.complete"

\* (c *Client) New, lines 411-438: where New goes when a step has returned
NewNext(step, err) ==
    IF err # "nil" THEN "returned"
    ELSE IF step = "Create" THEN "new.load"
    ELSE IF step = "Build" THEN "new.deploy"
    ELSE IF step = "Deploy" THEN "new.route"
    ELSE "new.complete"

\* the method returns err: to New's test of the error when New called it, else to
\* the caller of the Client
Return(c, method, err) ==
    LET c1 == IF method = "Build" THEN StopTicker(c) ELSE c
    IN  IF c1.call.op = "New"
        THEN [c1 EXCEPT !.call.steps = Append(@, Step(method, err)),
                        !.call.pc = NewNext(method, err),
                        !.call.err = err]
        ELSE [c1 EXCEPT !.call.pc = "returned", !.call.err = err]

\* (c *Client) Create(cfg)
CreateOp(disk, out) ==
    IF out # "ok" THEN [disk |-> disk, err |-> out]
    ELSE IF disk.initialized THEN [disk |-> disk, err |-> "initialized"]
    ELSE [disk |-> [disk EXCEPT !.initialized = TRUE], err |-> "nil"]

\* (c *Client) Push(ctx, f), lines 721-728: what follows the return of the pusher
PushOp(c, out, digest) ==
    IF out = "push" THEN c
    ELSE IF out = "write"
    THEN [c EXCEPT !.call.f.digest = digest, !.call.pushed = digest]
    ELSE [c EXCEPT !.call.f.digest = digest, !.call.pushed = digest,
                   !.disk = [c.call.f EXCEPT !.digest = digest]]

\* variant: no f.Built() test
DeployLoaded_NoBuiltCheck(f) == "nil"

\* (c *Client) Deploy, lines 601-603
DeployLoaded(f) == IF ~Built(f) THEN "ErrNotBuilt" ELSE "nil"

InitClient ==
    /\ ctxManager = 0
    /\ heap = <<>>
    /\ registry = [n \in PluginNames |-> NotInstalled]
    /\ discovered = <<>>
    /\ lastCall = NoCall
    /\ cacheFile = NoFile
    /\ pid = 1
    /\ hung = 0
    /\ lastOp = NoOp
    /\ loop = IdleLoop
    /\ threads = <<>>
    /\ client = [disk |-> NoFunction, call |-> NoMethod, ticker |-> NoTicker, late |-> 0]

Idle == client.call.pc = "returned"

\* a Build can start its ticker while those before it owe at most MaxLate calls
TickerRoom == client.late + 2 <= MaxLate

\* New is called, lines 399-408
ClientNew ==
    /\ Idle
    /\ TickerRoom
    /\ \E cancelled \in BOOLEAN :
          client' = Stopping(Log([client EXCEPT !.call = Method("New", "create", cancelled)],
                                 "SetTotal"))

ClientCreate ==
    /\ Idle
    /\ client' = [client EXCEPT !.call = Method("Create", "create", FALSE)]

ClientBuild ==
    /\ Idle
    /\ TickerRoom
    /\ \E cancelled \in BOOLEAN :
          client' = [client EXCEPT !.call = Method("Build", "build.start", cancelled)]

ClientDeploy ==
    /\ Idle
    /\ \E cancelled \in BOOLEAN :
          client' = [client EXCEPT !.call = Method("Deploy", "deploy.start", cancelled)]

\* Push is called with the Function loaded from the function's root
ClientPush ==
    /\ Idle
    /\ client' = [client EXCEPT !.call = [Method("Push", "push.call", FALSE)
                                              EXCEPT !.f = client.disk]]

ClientRoute ==
    /\ Idle
    /\ client' = [client EXCEPT !.call = Method("Route", "route", FALSE)]

\* (c *Client) Create(cfg), lines 456-526
Create ==
    /\ client.call.pc = "create"
    /\ \E out \in CreateOutcomes :
          LET r == CreateOp(client.disk, out)
          IN  client' = Return([client EXCEPT !.disk = r.disk], "Create", r.err)

\* lines 416-422: NewFunction(cfg.Root), then Increment("Building container image")
NewLoad ==
    /\ client.call.pc = "new.load"
    /\ \E loads \in BOOLEAN :
          client' = IF loads THEN At(Log(client, "Increment"), "build.start")
                    ELSE [client EXCEPT !.call.pc = "returned", !.call.err = "load"]

\* lines 531-554: Increment, the ticker and its goroutine, the ctx.Done() goroutine
BuildStart ==
    /\ client.call.pc = "build.start"
    /\ client' = At(Stopping(Log([client EXCEPT !.ticker =
                                      Ticker(TRUE, TickerMessages, 0, FALSE)],
                                 "Increment")),
                    "build.load")

\* lines 556-564: NewFunction(path) and DerivedImage
BuildLoad ==
    /\ client.call.pc = "build.load"
    /\ \E out \in {"ok", "load", "derive"} :
          client' = IF out # "ok" THEN Return(client, "Build", out)
                    ELSE At([client EXCEPT !.call.f =
                                 [client.disk EXCEPT !.image = DerivedImage(client.disk)]],
                            "build.builder")

\* line 566: c.builder.Build(ctx, f) is called
BuilderCalled ==
    /\ client.call.pc = "build.builder"
    /\ client' = At(Log(client, "builder.Build"), "build.running")

\* lines 566-574: the builder returns, then f.Write()
BuilderReturns ==
    /\ client.call.pc = "build.running"
    /\ \E out \in {"ok", "builder", "write"} :
          client' = IF out # "ok" THEN Return(client, "Build", out)
                    ELSE At([client EXCEPT !.disk = client.call.f], "build.done")

\* lines 578-583: Increment(message), return
BuildDone ==
    /\ client.call.pc = "build.done"
    /\ client' = Return(Log(client, "Increment"), "Build", "nil")

\* line 429: Increment("Deploying Function to cluster")
NewDeploy ==
    /\ client.call.pc = "new.deploy"
    /\ client' = At(Log(client, "Increment"), "deploy.start")

\* lines 589-603: the ctx.Done() goroutine, NewFunction(path), the f.Built() test
DeployStart ==
    /\ client.call.pc = "deploy.start"
    /\ \E loads \in BOOLEAN :
          LET c == Stopping(client)
              err == DeployLoaded(client.disk)
          IN  client' = IF ~loads THEN Return(c, "Deploy", "load")
                        ELSE IF err # "nil" THEN Return(c, "Deploy", err)
                        ELSE At([c EXCEPT !.call.f = client.disk], "push.call")

\* line 721: c.pusher.Push(ctx, *f) is called
PusherCalled ==
    /\ client.call.pc = "push.call"
    /\ client' = At(Log(client, "pusher.Push"), "push.running")

\* lines 721-728 and 605-607: the pusher returns, the digest is recorded and written
PusherReturns ==
    /\ client.call.pc = "push.running"
    /\ \E out \in PushOutcomes, digest \in Digests :
          LET c == PushOp(client, out, digest)
              err == IF out = "ok" THEN "nil" ELSE out
          IN  client' = IF client.call.op = "Push" THEN Return(c, "Push", err)
                        ELSE IF err # "nil" THEN Return(c, "Deploy", err)
                        ELSE At(c, "deploy.increment")

\* line 610: Increment("Deploying function to the cluster")
DeployIncrement ==
    /\ client.call.pc = "deploy.increment"
    /\ client' = At(Log(client, "Increment"), "deploy.deployer")

\* line 611: c.deployer.Deploy(ctx, f) is called
DeployerCalled ==
    /\ client.call.pc = "deploy.deployer"
    /\ client' = At(Log(client, "deployer.Deploy"), "deploy.running")

\* lines 611-618: the deployer returns; Increment when the result says Deployed or
\* Updated, whatever the error
DeployerReturns ==
    /\ client.call.pc = "deploy.running"
    /\ \E status \in Statuses, fails \in BOOLEAN :
          client' = Return(IF status \in {"Deployed", "Updated"}
                           THEN Log(client, "Increment") ELSE client,
                           "Deploy", IF fails THEN "deployer" ELSE "nil")

\* line 435: Increment("Creating route to Function")
NewRoute ==
    /\ client.call.pc = "new.route"
    /\ client' = At(Log(client, "Increment"), "route")

\* lines 629-632: NewFunction(path)
RouteLoad ==
    /\ client.call.pc = "route"
    /\ \E loads \in BOOLEAN :
          client' = IF loads THEN At(client, "route.provider")
                    ELSE Return(client, "Route", "load")

\* line 633: c.dnsProvider.Provide(f) is called
ProviderCalled ==
    /\ client.call.pc = "route.provider"
    /\ client' = At(Log(client, "dnsProvider.Provide"), "route.running")

\* line 633: the provider returns, and Route returns its error
ProviderReturns ==
    /\ client.call.pc = "route.running"
    /\ \E fails \in BOOLEAN :
          client' = Return(client, "Route", IF fails THEN "dns" ELSE "nil")

\* line 440: Complete("Done")
NewComplete ==
    /\ client.call.pc = "new.complete"
    /\ client' = [Log(client, "Complete") EXCEPT !.call.pc = "returned"]

\* a period of the ticker ends: the runtime puts a tick in ticker.C unless one is there
TickerFires ==
    /\ client.ticker.on
    /\ client.ticker.pending = 0
    /\ client' = [client EXCEPT !.ticker.pending = 1]

\* lines 542-545: the goroutine takes the tick; it ends when m is empty
TickerReceives ==
    /\ client.ticker.on
    /\ client.ticker.pending = 1
    /\ ~client.ticker.inhand
    /\ client.ticker.m > 0
    /\ client' = [client EXCEPT !.ticker.pending = 0, !.ticker.inhand = TRUE]

\* lines 546-547: Increment(m[0]); m = m[1:]
TickerIncrement ==
    /\ client.ticker.on
    /\ client.ticker.inhand
    /\ client' = [Log(client, "Increment") EXCEPT !.ticker.inhand = FALSE,
                                                  !.ticker.m = @ - 1]

\* lines 542-547 after ticker.Stop(): the goroutine of a Build that has returned
\* calls Increment for a tick it had taken or that was left in the channel
LateIncrement ==
    /\ client.late > 0
    /\ client' = [Log(client, "Increment") EXCEPT !.late = @ - 1]

\* the function's directory is removed
ClientRemoveRoot ==
    /\ Idle
    /\ client' = [client EXCEPT !.disk = NoFunction, !.call = NoMethod]

clientFrame == <<ctxManager, heap, registry, discovered, lastCall, procVars, loop, threads>>

NextClient ==
    \/ ClientNew /\ UNCHANGED clientFrame
    \/ ClientCreate /\ UNCHANGED clientFrame
    \/ ClientBuild /\ UNCHANGED clientFrame
    \/ ClientDeploy /\ UNCHANGED clientFrame
    \/ ClientPush /\ UNCHANGED clientFrame
    \/ ClientRoute /\ UNCHANGED clientFrame
    \/ Create /\ UNCHANGED clientFrame
    \/ NewLoad /\ UNCHANGED clientFrame
    \/ BuildStart /\ UNCHANGED clientFrame
    \/ BuildLoad /\ UNCHANGED clientFrame
    \/ BuilderCalled /\ UNCHANGED clientFrame
    \/ BuilderReturns /\ UNCHANGED clientFrame
    \/ BuildDone /\ UNCHANGED clientFrame
    \/ NewDeploy /\ UNCHANGED clientFrame
    \/ DeployStart /\ UNCHANGED clientFrame
    \/ PusherCalled /\ UNCHANGED clientFrame
    \/ PusherReturns /\ UNCHANGED clientFrame
    \/ DeployIncrement /\ UNCHANGED clientFrame
    \/ DeployerCalled /\ UNCHANGED clientFrame
    \/ DeployerReturns /\ UNCHANGED clientFrame
    \/ NewRoute /\ UNCHANGED clientFrame
    \/ RouteLoad /\ UNCHANGED clientFrame
    \/ ProviderCalled /\ UNCHANGED clientFrame
    \/ ProviderReturns /\ UNCHANGED clientFrame
    \/ NewComplete /\ UNCHANGED clientFrame
    \/ TickerFires /\ UNCHANGED clientFrame
    \/ TickerReceives /\ UNCHANGED clientFrame
    \/ TickerIncrement /\ UNCHANGED clientFrame
    \/ LateIncrement /\ UNCHANGED clientFrame
    \/ ClientRemoveRoot /\ UNCHANGED clientFrame

SpecClient == InitClient /\ [][NextClient]_vars

(***************************************************************************)
(* Reading contexts.  GetContext and GetDefault are pure functions of the  *)
(* manager's ContextData field and the name asked for; the field is        *)
(* exported and nothing in this package assigns to it, so the stores are   *)
(* drawn from a bounded set: each context name is absent or holds a map    *)
(* from some of the keys to values.                                        *)
(***************************************************************************)
ContextNames == {"default", "kn-service"}

AskedNames == ContextNames \cup {"kn-missing"}

ContextValues == 1..MaxValues

Contexts == UNION {[ks -> ContextValues] : ks \in SUBSET Keys}

ContextStores == UNION {[ns -> Contexts] : ns \in SUBSET ContextNames}

InitContext ==
    /\ AuxInit
    /\ ctxManager = 1
    /\ \E store \in ContextStores : heap = <<[NewManager EXCEPT !.ContextData = store]>>
    /\ registry = [n \in PluginNames |-> NotInstalled]
    /\ discovered = <<>>
    /\ lastCall = NoCall
    /\ cacheFile = NoFile
    /\ pid = 1
    /\ hung = 0
    /\ lastOp = NoOp

GetContextCall ==
    /\ ctxManager # 0
    /\ \E key \in AskedNames :
          lastOp' = [NoOp EXCEPT !.op = "get", !.key = key,
                                 !.data = GetContext(heap[ctxManager], key)]
    /\ UNCHANGED <<ctxManager, heap, registry, discovered, lastCall, cacheFile, pid, hung>>

GetDefaultCall ==
    /\ ctxManager # 0
    /\ lastOp' = [NoOp EXCEPT !.op = "getdefault", !.key = "default",
                              !.data = GetDefault(heap[ctxManager])]
    /\ UNCHANGED <<ctxManager, heap, registry, discovered, lastCall, cacheFile, pid, hung>>

NextContext ==
    \/ GetContextCall /\ UNCHANGED auxVars
    \/ GetDefaultCall /\ UNCHANGED auxVars

SpecContext == InitContext /\ [][NextContext]_vars

(***************************************************************************)
(* Properties                                                              *)
(***************************************************************************)
Mgr == heap[ctxManager]

MgrNext == heap'[ctxManager']

Producers(k) == MapGet(Mgr.Producers, k, <<>>)

Consumers(k) == MapGet(Mgr.Consumers, k, <<>>)

IndexedKeys == Keys \cup DOMAIN Mgr.Producers \cup DOMAIN Mgr.Consumers

DiscoveryIndex(n) == CHOOSE i \in DOMAIN discovered : discovered[i] = n

InDiscoveryOrder(s) ==
    \A i, j \in DOMAIN s : i < j => DiscoveryIndex(s[i]) <= DiscoveryIndex(s[j])

Position(s, n) == CHOOSE i \in DOMAIN s : s[i] = n

Occurrences(s, n) == Len(SelectSeq(s, LAMBDA x : x = n))

\* C1: in every state reached by FetchManifests calls, producers[k] holds exactly
\* the plugins whose stored manifest produces k, in the order they were discovered.
C1_ProducersDerivable ==
    ctxManager # 0 =>
        \A k \in IndexedKeys :
            /\ Range(Producers(k)) =
                   {n \in DOMAIN Mgr.Manifests :
                        k \in Range(Mgr.Manifests[n].ProducesContextDataKeys)}
            /\ InDiscoveryOrder(Producers(k))

\* two producers of one key, discovered against the registry's order
C1_Witness ==
    /\ ctxManager # 0
    /\ \E k \in Keys : /\ Len(Producers(k)) >= 2
                       /\ Producers(k)[1] > Producers(k)[2]

\* C2: in every reachable state consumers[k] holds exactly the plugins whose stored
\* manifest consumes k, in discovery order.
C2_ConsumersDerivable ==
    ctxManager # 0 =>
        \A k \in IndexedKeys :
            /\ \A n \in Range(Consumers(k)) :
                   /\ n \in DOMAIN Mgr.Manifests
                   /\ k \in Range(Mgr.Manifests[n].ConsumesContextDataKeys)
            /\ \A n \in DOMAIN Mgr.Manifests :
                   k \in Range(Mgr.Manifests[n].ConsumesContextDataKeys)
                       => n \in Range(Consumers(k))
            /\ InDiscoveryOrder(Consumers(k))

\* two consumers of one key, discovered against the registry's order, while another
\* key has a consumer too
C2_Witness ==
    /\ ctxManager # 0
    /\ \E k \in Keys : /\ Len(Consumers(k)) >= 2
                       /\ Consumers(k)[1] > Consumers(k)[2]
                       /\ \E k2 \in Keys \ {k} : Consumers(k2) # <<>>

\* C3: a FetchManifests call that follows a successful call on the same registry
\* contents changes neither manifests nor producers nor consumers.
C3_SecondFetchChangesNothing ==
    [][lastCall'.repeat => /\ MgrNext.Manifests = Mgr.Manifests
                           /\ MgrNext.Producers = Mgr.Producers
                           /\ MgrNext.Consumers = Mgr.Consumers]_vars

\* a repeated call on a registry of which manifests and indexes hold something
C3_Witness ==
    /\ lastCall.repeat
    /\ Len(lastCall.plugins) >= 2
    /\ DOMAIN Mgr.Manifests # {}
    /\ DOMAIN Mgr.Producers # {}
    /\ DOMAIN Mgr.Consumers # {}

\* C4: a plugin name that has an entry in manifests keeps that entry unchanged and is
\* not fetched by any later FetchManifests call.
C4_EntryIsFinal ==
    [][ctxManager # 0 =>
          \A n \in DOMAIN Mgr.Manifests :
              /\ n \in DOMAIN MgrNext.Manifests
              /\ MgrNext.Manifests[n] = Mgr.Manifests[n]
              /\ lastCall'.called => n \notin Range(lastCall'.fetched)]_vars

\* a call that listed an external plugin stored without a manifest by an earlier call,
\* left it alone and fetched another plugin
C4_Witness ==
    /\ lastCall.called /\ ~lastCall.err
    /\ \E n \in Range(lastCall.plugins) :
          /\ n \in DOMAIN Mgr.Manifests
          /\ ~Mgr.Manifests[n].HasManifest
          /\ registry[n].path # EmptyPath
          /\ n \notin Range(lastCall.fetched)
    /\ lastCall.fetched # <<>>

C7_NilManifestEndsCall ==
    [][(lastCall'.called /\ lastCall'.stop # 0) =>
          LET listed == lastCall'.plugins
              stop == lastCall'.stop
              at == Position(listed, stop)
          IN  /\ ~lastCall'.err
              /\ stop \in Range(listed)
              /\ stop \notin DOMAIN MgrNext.Manifests
              /\ lastCall'.fetched[Len(lastCall'.fetched)] = stop
              /\ \A i \in 1..(at - 1) :
                    LET n == listed[i] IN
                    /\ n \in DOMAIN MgrNext.Manifests
                    /\ n \notin DOMAIN Mgr.Manifests => n \in Range(lastCall'.fetched)
                    /\ \A k \in Range(MgrNext.Manifests[n].ProducesContextDataKeys) :
                          n \in Range(MapGet(MgrNext.Producers, k, <<>>))
                    /\ \A k \in Range(MgrNext.Manifests[n].ConsumesContextDataKeys) :
                          n \in Range(MapGet(MgrNext.Consumers, k, <<>>))
              /\ \A i \in (at + 1)..Len(listed) :
                    LET n == listed[i] IN
                    /\ n \notin Range(lastCall'.fetched)
                    /\ n \in DOMAIN MgrNext.Manifests <=> n \in DOMAIN Mgr.Manifests
                    /\ n \in DOMAIN Mgr.Manifests =>
                           MgrNext.Manifests[n] = Mgr.Manifests[n]
                    /\ \A k \in Keys :
                          /\ Occurrences(MapGet(MgrNext.Producers, k, <<>>), n)
                                 = Occurrences(MapGet(Mgr.Producers, k, <<>>), n)
                          /\ Occurrences(MapGet(MgrNext.Consumers, k, <<>>), n)
                                 = Occurrences(MapGet(Mgr.Consumers, k, <<>>), n)]_vars

\* a call over three plugins that stored and indexed the first, met a nil manifest at
\* the second and left the third unknown
C7_Witness ==
    /\ lastCall.called /\ ~lastCall.err
    /\ Len(lastCall.plugins) = 3
    /\ lastCall.stop = lastCall.plugins[2]
    /\ lastCall.fetched = <<lastCall.plugins[1], lastCall.plugins[2]>>
    /\ Mgr.Manifests[lastCall.plugins[1]].ProducesContextDataKeys # <<>>
    /\ lastCall.plugins[3] \notin DOMAIN Mgr.Manifests
    /\ registry[lastCall.plugins[3]].path # EmptyPath

\* C8: an external plugin whose manifest process failed to start or exited non-zero is
\* stored with hasManifest = false, is in no producers or consumers list, and the call
\* goes on to the plugin listed after it.
C8_RunFailureStoredAsNoManifest ==
    \A n \in DOMAIN lastCall.ran :
        lastCall.ran[n] = "runfail" =>
            LET at == Position(lastCall.plugins, n) IN
            /\ ~lastCall.err
            /\ n \in DOMAIN Mgr.Manifests
            /\ ~Mgr.Manifests[n].HasManifest
            /\ \A k \in IndexedKeys : /\ n \notin Range(Producers(k))
                                      /\ n \notin Range(Consumers(k))
            /\ lastCall.stop # n
            /\ at < Len(lastCall.plugins) =>
                   \/ lastCall.plugins[at + 1] \in DOMAIN Mgr.Manifests
                   \/ lastCall.plugins[at + 1] = lastCall.stop

\* a failed run followed in the same call by the fetch of the next plugin
C8_Witness ==
    \E n \in DOMAIN lastCall.ran :
        /\ lastCall.ran[n] = "runfail"
        /\ Position(lastCall.plugins, n) < Len(lastCall.plugins)
        /\ lastCall.plugins[Position(lastCall.plugins, n) + 1] \in Range(lastCall.fetched)
        /\ lastCall.plugins[Position(lastCall.plugins, n) + 1] \in DOMAIN Mgr.Manifests

C10_ErrorOnlyFromListPlugins ==
    [][lastCall'.called =>
          /\ lastCall'.err <=> lastCall'.listErr
          /\ lastCall'.err => MgrNext = Mgr]_vars

\* a failed listing met by a manager that holds manifests, with a plugin still to fetch
C10_Witness ==
    /\ lastCall.called /\ lastCall.err /\ lastCall.listErr
    /\ DOMAIN Mgr.Manifests # {}
    /\ \E n \in PluginNames : /\ registry[n] # NotInstalled
                              /\ registry[n].path # EmptyPath
                              /\ n \notin DOMAIN Mgr.Manifests

\* C14: for every plugin name without an entry in manifests GetProducesKeys and
\* GetConsumesKeys return the empty sequence, in every state of the manager.
C14_UnknownPluginHasNoKeys ==
    ctxManager # 0 =>
        \A n \in PluginNames \ DOMAIN Mgr.Manifests :
            /\ GetProducesKeys(Mgr, n) = <<>>
            /\ GetConsumesKeys(Mgr, n) = <<>>

\* a manager that holds keys of one plugin while a listed plugin has no entry
C14_Witness ==
    /\ ctxManager # 0
    /\ lastCall.called /\ lastCall.stop # 0
    /\ lastCall.stop \notin DOMAIN Mgr.Manifests
    /\ \E n \in DOMAIN Mgr.Manifests : GetConsumesKeys(Mgr, n) # <<>>

\* C15: for a plugin stored with hasManifest = true the two accessors return the
\* stored manifest's key lists in their declared order; for an inlined plugin these
\* are the lists of the manifest its GetManifest returns.
C15_AccessorsReturnDeclaredKeys ==
    ctxManager # 0 =>
        \A n \in DOMAIN Mgr.Manifests :
            Mgr.Manifests[n].HasManifest =>
                /\ GetConsumesKeys(Mgr, n) = Mgr.Manifests[n].ConsumesContextDataKeys
                /\ GetProducesKeys(Mgr, n) = Mgr.Manifests[n].ProducesContextDataKeys
                /\ registry[n].path = EmptyPath =>
                       /\ GetConsumesKeys(Mgr, n) =
                              registry[n].getManifest.v.ConsumesContextDataKeys
                       /\ GetProducesKeys(Mgr, n) =
                              registry[n].getManifest.v.ProducesContextDataKeys

\* the kn-service-log scenario: an external plugin whose decoded manifest consumes
\* service and namespace
C15_Witness ==
    /\ ctxManager # 0
    /\ \E n \in DOMAIN lastCall.ran :
          /\ lastCall.ran[n] = "decoded"
          /\ Mgr.Manifests[n].HasManifest
          /\ GetConsumesKeys(Mgr, n) = <<"service", "namespace">>
          /\ GetProducesKeys(Mgr, n) = <<>>

\* C20: the manifest stored for an external plugin has the plugin's Path() as its path.
C20_StoredPathIsPluginPath ==
    ctxManager # 0 =>
        \A n \in DOMAIN Mgr.Manifests :
            registry[n].path # EmptyPath => Mgr.Manifests[n].Path = registry[n].path


(***************************************************************************)
(* Claims about the cache file and the life of the manager in a process,   *)
(* under SpecProcesses.                                                    *)
(***************************************************************************)

\* C11: round trip.  The text a successful WriteCache leaves in the cache file
\* decodes to the contextData and manifests of the manager that wrote it, and a
\* manager constructed while a complete cache file exists holds the contextData
\* and manifests that file decodes to.
C11_RoundTrip ==
    /\ (lastOp.op = "write" /\ ~lastOp.err) =>
          /\ cacheFile.state = "complete"
          /\ DecodeCache(cacheFile.text).ContextData = Mgr.ContextData
          /\ DecodeCache(cacheFile.text).Manifests = Mgr.Manifests
    /\ (lastOp.op = "new" /\ lastOp.outcome = "complete") =>
          /\ lastOp.ret # 0
          /\ heap[lastOp.ret].ContextData = DecodeCache(cacheFile.text).ContextData
          /\ heap[lastOp.ret].Manifests = DecodeCache(cacheFile.text).Manifests

\* C12: a NewContextManager call that constructs the manager while the cache file
\* is absent, unreadable or undecodable returns no error and a manager whose four
\* maps are empty.
C12_ConstructionNeverFails ==
    (lastOp.op = "new" /\ lastOp.outcome \in {"absent", "unreadable", "torn"}) =>
        /\ ~lastOp.err
        /\ lastOp.ret # 0
        /\ heap[lastOp.ret] = NewManager

C12_Witness ==
    /\ lastOp.op = "new"
    /\ lastOp.outcome = "torn"
    /\ pid > 1
    /\ \E n \in PluginNames : registry[n] # NotInstalled

\* C13: within one process the manager is constructed at most once: once the global
\* is set no step replaces it or allocates another manager, and a later
\* NewContextManager call returns the same instance with its content untouched.
C13_ConstructedOncePerProcess ==
    [][(pid' = pid /\ ctxManager # 0) =>
          /\ ctxManager' = ctxManager
          /\ Len(heap') = Len(heap)
          /\ Len(heap) = 1
          /\ (lastOp'.op = "new" =>
                /\ lastOp'.ret = ctxManager
                /\ heap'[lastOp'.ret] = heap[ctxManager])]_vars

C13_Witness ==
    /\ lastOp.op = "new"
    /\ lastOp.outcome = "none"
    /\ lastOp.ret = ctxManager
    /\ \E n \in DOMAIN heap[lastOp.ret].Manifests : heap[lastOp.ret].Manifests[n].HasManifest
    /\ \E k \in Keys : Consumers(k) # <<>>

\* C18: WriteCache replaces the cache atomically: after any step of a WriteCache call
\* the file holds its complete previous content or the complete encoding of the
\* manager, whether the write succeeded or failed.
C18_CacheReplacedAtomically ==
    [][lastOp'.op = "write" =>
          \/ /\ cacheFile'.state = cacheFile.state
             /\ cacheFile'.text = cacheFile.text
          \/ /\ cacheFile'.state = "complete"
             /\ cacheFile'.text = Encode(Mgr)]_vars

\* C19: WriteCache leaves the in-memory manager as it was, whether the write
\* succeeds or fails, and it returns an error exactly when the file was not written.
C19_WriteCacheKeepsManager ==
    [][lastOp'.op = "write" =>
          /\ ctxManager' = ctxManager
          /\ heap' = heap
          /\ lastOp'.err <=> (lastOp'.outcome # "written")
          /\ ~lastOp'.err =>
                (cacheFile'.state = "complete" /\ cacheFile'.text = Encode(Mgr))]_vars

C19_Witness ==
    /\ lastOp.op = "write"
    /\ lastOp.err
    /\ lastOp.outcome = "writefailed"
    /\ ctxManager # 0
    /\ \E n \in DOMAIN Mgr.Manifests : Mgr.Manifests[n].HasManifest

\* C17: FetchManifests always returns: no call is left waiting for a plugin process
\* that never exits.
C17_FetchManifestsReturns == hung = 0


\* C16: GetContext returns the stored map of a name that has one and an empty map
\* for a name that has none, and GetDefault returns what GetContext("default")
\* returns; checked on the call that has just returned and on every name.
C16_GetContextTotal ==
    /\ lastOp.op = "get" =>
          lastOp.data = IF lastOp.key \in DOMAIN Mgr.ContextData
                        THEN Mgr.ContextData[lastOp.key] ELSE EmptyMap
    /\ lastOp.op = "getdefault" => lastOp.data = GetContext(Mgr, "default")
    /\ \A name \in AskedNames :
          GetContext(Mgr, name) = IF name \in DOMAIN Mgr.ContextData
                                  THEN Mgr.ContextData[name] ELSE EmptyMap
    /\ GetDefault(Mgr) = GetContext(Mgr, "default")

C16_Witness ==
    /\ lastOp.op = "get"
    /\ lastOp.key \notin DOMAIN Mgr.ContextData
    /\ lastOp.data = EmptyMap
    /\ "default" \in DOMAIN Mgr.ContextData
    /\ DOMAIN Mgr.ContextData["default"] = Keys


\* C21: a FetchManifests call for which ListPlugins returns no plugin returns no
\* error and leaves the manager as it was; this holds for the call that has just
\* returned and for such a call made in any reachable state.
C21_EmptyRegistryNoChange ==
    [][/\ ctxManager # 0 =>
             LET r == FetchManifestsOp(Mgr, [plugins |-> <<>>, err |-> FALSE],
                                       [n \in PluginNames |-> NoExec])
             IN  ~r.err /\ r.c = Mgr
       /\ (lastCall'.called /\ ~lastCall'.listErr /\ lastCall'.plugins = <<>>) =>
             (~lastCall'.err /\ heap' = heap)]_vars

C21_Witness ==
    /\ ctxManager # 0
    /\ lastCall.called
    /\ ~lastCall.listErr
    /\ lastCall.plugins = <<>>
    /\ ~lastCall.err
    /\ Mgr = NewManager

\* C22: discovery is sequential: at most one manifest fetch is in progress, the
\* plugins fetched in a call follow the order of the ListPlugins result, and when
\* the fetch of a plugin starts every plugin listed before it is stored and indexed
\* under each key it declares.
C22_DiscoveryIsSequential ==
    /\ Cardinality(loop.inflight) <= 1
    /\ \A a, b \in DOMAIN loop.fetched :
          a < b => Position(Names(loop.plugins), loop.fetched[a])
                       < Position(Names(loop.plugins), loop.fetched[b])
    /\ loop.phase = "fetching" =>
          /\ loop.inflight = {loop.plugins[loop.i].name}
          /\ \A j \in 1..(loop.i - 1) :
                LET q == loop.plugins[j].name IN
                /\ q \in DOMAIN Mgr.Manifests
                /\ \A k \in Range(Mgr.Manifests[q].ProducesContextDataKeys) :
                      q \in Range(Producers(k))
                /\ \A k \in Range(Mgr.Manifests[q].ConsumesContextDataKeys) :
                      q \in Range(Consumers(k))

C22_Witness ==
    /\ loop.phase = "fetching"
    /\ loop.i = 2
    /\ loop.fetched = <<loop.plugins[1].name>>
    /\ loop.plugins[1].path # EmptyPath
    /\ Consumers("service") = <<loop.plugins[1].name>>

\* C23: a cache file that exists grants no permission to group or others.
C23_CacheOwnerOnly ==
    cacheFile.state # "absent" => (cacheFile.mode[2] = 0 /\ cacheFile.mode[3] = 0)

\* C24: the step that stores the manifest of an inlined plugin with the GetManifest
\* capability stores what GetManifest returned, unmodified, and appends the plugin
\* to the index of each declared key once per declaration and to no other; for a
\* plugin with a path the manifest used is the one fetchExternalManifest gave,
\* whether or not the plugin has the capability.
C24_InlineManifestStoredUnmodified ==
    [][(loop.phase = "fetched" /\ loop'.phase = "loop") =>
          LET plugin == loop.plugins[loop.i]
              M == plugin.getManifest.v
              Times(keys, k) == [x \in 1..Occurrences(keys, k) |-> plugin.name]
          IN  /\ (plugin.path = EmptyPath /\ plugin.hasCap /\ ~plugin.getManifest.isNil) =>
                    /\ plugin.name \in DOMAIN MgrNext.Manifests
                    /\ MgrNext.Manifests[plugin.name] = M
                    /\ \A k \in Keys \cup DOMAIN MgrNext.Producers \cup DOMAIN MgrNext.Consumers :
                          /\ MapGet(MgrNext.Producers, k, <<>>) =
                                Producers(k) \o Times(M.ProducesContextDataKeys, k)
                          /\ MapGet(MgrNext.Consumers, k, <<>>) =
                                Consumers(k) \o Times(M.ConsumesContextDataKeys, k)
              /\ plugin.path # EmptyPath =>
                    /\ loop.got = fetchExternalManifest(plugin, loop.exec)
                    /\ MgrNext.Manifests[plugin.name] = loop.got.v]_vars

C24_Witness ==
    /\ ctxManager # 0
    /\ \E n \in DOMAIN Mgr.Manifests :
          /\ registry[n].path = EmptyPath
          /\ registry[n].hasCap
          /\ Mgr.Manifests[n] = registry[n].getManifest.v
          /\ Mgr.Manifests[n].HasManifest
          /\ n \in Range(Producers("namespace"))
    /\ \E n \in DOMAIN Mgr.Manifests :
          /\ registry[n].path # EmptyPath
          /\ registry[n].hasCap
          /\ Mgr.Manifests[n].Path # EmptyPath

\* C25: for an external plugin fetched by the call that has just returned, the
\* stored hasManifest is true exactly when the run exited zero and its output
\* decoded without error.
C25_HasManifestIffDecoded ==
    (ctxManager # 0 /\ lastCall.called) =>
        \A n \in DOMAIN lastCall.ran :
            n \in DOMAIN Mgr.Manifests =>
                (Mgr.Manifests[n].HasManifest <=> lastCall.ran[n] = "decoded")

\* C28: no plugin occurs more than once in producers[k] or in consumers[k].
C28_NoDuplicateInIndex ==
    ctxManager # 0 =>
        \A k \in IndexedKeys, n \in PluginNames :
            /\ Occurrences(Producers(k), n) <= 1
            /\ Occurrences(Consumers(k), n) <= 1


\* C29: concurrent first calls of NewContextManager construct one manager: every
\* goroutine is given the same instance, the one the package variable refers to,
\* so what a goroutine stored through its manager is in the manager of the others.
C29_SingletonUnderConcurrency ==
    /\ Len(heap) <= 1
    /\ \A t \in DOMAIN threads :
          threads[t].ret # 0 =>
              /\ threads[t].ret = ctxManager
              /\ \A u \in DOMAIN threads :
                    threads[u].ret # 0 =>
                        heap[threads[u].ret].Manifests = heap[threads[t].ret].Manifests

\* C26: a Deploy call on a function that loads and has not been built returns
\* ErrNotBuilt having called neither the pusher nor the deployer; the deployer is
\* called only for a built function, after the pusher returned without error and
\* the digest it returned was written to the function; when the pusher fails its
\* error is returned and the deployer is not called.
C26_DeployNeedsBuiltAndPushed ==
    client.call.op = "Deploy" =>
        LET log == client.call.log
            err == client.call.err
            Before(a, b) == \E i, j \in DOMAIN log : i < j /\ log[i] = a /\ log[j] = b
        IN  /\ (Idle /\ ~Built(client.disk) /\ err # "load") =>
                  /\ err = "ErrNotBuilt"
                  /\ "pusher.Push" \notin Range(log)
                  /\ "deployer.Deploy" \notin Range(log)
                  /\ client.call.pushed = 0
            /\ "deployer.Deploy" \in Range(log) =>
                  /\ Built(client.disk)
                  /\ Built(client.call.f)
                  /\ Before("pusher.Push", "deployer.Deploy")
                  /\ client.call.pushed \in Digests
                  /\ client.disk.digest = client.call.pushed
                  /\ err \in {"nil", "deployer"}
            /\ (Idle /\ err \in {"push", "write"}) =>
                  /\ "pusher.Push" \in Range(log)
                  /\ "deployer.Deploy" \notin Range(log)

C26_Witness ==
    /\ client.call.op = "Deploy"
    /\ Idle
    /\ client.call.err = "nil"
    /\ client.call.log = <<"pusher.Push", "Increment", "deployer.Deploy", "Increment">>
    /\ client.disk.digest = MaxDigests
    /\ client.call.pushed = MaxDigests

\* C27: the steps of a New call that has returned are a prefix of Create, Build,
\* Deploy, Route; every step but the last one run returned no error; the error of a
\* failed step is the error New returns; Complete is notified exactly when the four
\* steps ran without error, and then New returns no error.
C27_NewRunsStepsInOrder ==
    (client.call.op = "New" /\ Idle) =>
        LET steps == client.call.steps
            order == <<"Create", "Build", "Deploy", "Route">>
        IN  /\ Len(steps) \in 1..4
            /\ \A i \in DOMAIN steps : steps[i].step = order[i]
            /\ \A i \in DOMAIN steps : i < Len(steps) => steps[i].err = "nil"
            /\ steps[Len(steps)].err # "nil" => client.call.err = steps[Len(steps)].err
            /\ ("Complete" \in Range(client.call.log)) <=>
                   (Len(steps) = 4 /\ \A i \in DOMAIN steps : steps[i].err = "nil")
            /\ ("Complete" \in Range(client.call.log)) => client.call.err = "nil"
            /\ client.call.err = "nil" => "Complete" \in Range(client.call.log)

C27_Witness ==
    /\ client.call.op = "New"
    /\ Idle
    /\ client.call.err = "deployer"
    /\ Len(client.call.steps) = 3
    /\ client.call.steps[3].step = "Deploy"
    /\ "Complete" \notin Range(client.call.log)
    /\ client.disk.digest # 0

====
